---- MODULE Spec2Model ----
(***************************************************************************)
(* Model of minigotchi-ESP32/frame.cpp: Frame::pack, Frame::send and       *)
(* Frame::advertise, with the static state of class Frame.                 *)
(*                                                                         *)
(* Buffers are sequences; the byte at C index k of a buffer b is b[k + 1]. *)
(* The serialized document comes from ArduinoJson and Config, which are    *)
(* outside frame.cpp: it is modelled as a byte string taken from a family  *)
(* of lengths and byte patterns.  millis() and delay() belong to the host: *)
(* the clock is a counter that a delay or a transmit may or may not move.  *)
(***************************************************************************)
EXTENDS Integers, Sequences, FiniteSets, TLC

VARIABLES
  cfg,          \* Config: its fields, and the len and pat of its document
  doc,          \* the JSON document built by the last pack, by key
  beaconFrame,  \* Frame::beaconFrame
  payloadSize,  \* Frame::payloadSize
  essidLength,  \* Frame::essidLength
  headerLength, \* Frame::headerLength
  pc,           \* position of the single thread of control
  caller,       \* who called Frame::send: "api" or "advertise"
  i,            \* loop counter of Frame::advertise
  packets,      \* success counter of Frame::advertise
  startTime,    \* startTime of Frame::advertise
  sendOk,       \* value returned by Frame::send, until the caller reads it
  pps,          \* the rate computed in the current iteration, or "none"
  now,          \* the host clock, read by millis()
  jsonCfg,      \* history: the Config snapshot serialized by the last pack
  currentByte,  \* history: the write cursor at the end of the last pack
  chunkStarts,  \* history: the offsets at which the last pack wrote a marker
  oob,          \* history: the last pack wrote at or past beaconFrame.size()
  txLen,        \* history: the length handed to the last esp_wifi_80211_tx,
                \*          0 before the first one
  txThis,       \* history: transmit calls of the current advertise invocation
  okThis,       \* history: those of them that returned ESP_OK
  sendTrace,    \* history: what the current Frame::send has done so far
  advStatus,    \* history: "none", "skipped", "running" or "finished"
  io,           \* history: the calls to collaborators made by the last step
  nCalls        \* history: number of API calls made

vars == <<cfg, doc, beaconFrame, payloadSize, essidLength, headerLength, pc, caller,
          i, packets, startTime, sendOk, pps, now, jsonCfg, currentByte,
          chunkStarts, oob, txLen, txThis, okThis, sendTrace, advStatus, io,
          nCalls>>

frameVars == <<doc, beaconFrame, payloadSize, essidLength, headerLength,
               jsonCfg, currentByte, chunkStarts, oob>>
advVars == <<i, packets, startTime, pps, txThis, okThis, advStatus>>

----------------------------------------------------------------------------
\* Bounds of the model.

\* Documents have up to MaxFull full chunks, plus at most one byte more.
MaxFull == 2
\* Number of API calls (pack or send) in one behaviour of Spec.
MaxCalls == 2
\* Largest value of the host clock.
MaxClock == 1

----------------------------------------------------------------------------
\* Constants of frame.cpp.

chunkSize == 255
IDWhisperPayload == 222
QuestionMark == 63
AdvertiseIterations == 150
SendDelayMs == 102
StartDelayMs == 250

header ==
  << 128, 0,   0, 0,   255, 255, 255, 255, 255, 255,
     222, 173, 190, 239, 222, 173,
     161, 0, 100, 230, 11, 139,
     64, 67,
     0, 0, 0, 0, 0, 0, 0, 0,
     100, 0,
     17, 4 >>

\* A variant of pwngridHeaderLength that is one short.
pwngridHeaderLength_short == Len(header) - 1

pwngridHeaderLength == Len(header)

----------------------------------------------------------------------------
\* The serialized document.

EdgeBytes == << 0, 10, 31, 32, 63, 126, 127, 128, 195, 222, 255 >>

\* Byte k (from 0) of the document of pattern pat: pattern 0 is printable
\* ASCII, pattern 1 mixes control, printable and non-ASCII bytes.
DocByte(pat, k) ==
  IF pat = 0 THEN 32 + (k % 95) ELSE EdgeBytes[(k % Len(EdgeBytes)) + 1]

serializeJson(c) == [k \in 1..c.len |-> DocByte(c.pat, k - 1)]

measureJson(c) == Len(serializeJson(c))

Lengths == {0, 1} \cup {k * chunkSize + d : k \in 1..MaxFull, d \in {0, 1}}
Patterns == {0, 1}
\* Every length with the mixed pattern; the printable pattern for one of them.
Docs == {c \in [len : Lengths, pat : Patterns] : c.pat = 1 \/ c.len = 1}

\* The fields of Config that pack reads, each with a value of its own, and a
\* second value for each.  len and pat stand for the serialized text.
DefaultConfig ==
  [len |-> 1, pat |-> 1,
   epoch |-> 1, face |-> "face", identity |-> "identity", name |-> "name",
   advertise |-> TRUE, ap_ttl |-> 2, associate |-> TRUE,
   bored_num_epochs |-> 3, channels |-> << 1, 6, 11 >>, deauth |-> TRUE,
   excited_num_epochs |-> 4, hop_recon_time |-> 5, max_inactive_scale |-> 6,
   max_interactions |-> 7, max_misses_for_recon |-> 8, min_recon_time |-> 9,
   min_rssi |-> 10, recon_inactive_multiplier |-> 11, recon_time |-> 12,
   sad_num_epochs |-> 13, sta_ttl |-> 14,
   pwnd_run |-> 15, pwnd_tot |-> 16, session_id |-> "session_id",
   uptime |-> 17, version |-> "version"]

OtherConfig ==
  [len |-> 1, pat |-> 1,
   epoch |-> 101, face |-> "face'", identity |-> "identity'",
   name |-> "name'",
   advertise |-> FALSE, ap_ttl |-> 102, associate |-> FALSE,
   bored_num_epochs |-> 103, channels |-> << 2, 7, 12 >>, deauth |-> FALSE,
   excited_num_epochs |-> 104, hop_recon_time |-> 105,
   max_inactive_scale |-> 106, max_interactions |-> 107,
   max_misses_for_recon |-> 108, min_recon_time |-> 109, min_rssi |-> 110,
   recon_inactive_multiplier |-> 111, recon_time |-> 112,
   sad_num_epochs |-> 113, sta_ttl |-> 114,
   pwnd_run |-> 115, pwnd_tot |-> 116, session_id |-> "session_id'",
   uptime |-> 117, version |-> "version'"]

ConfigFields == DOMAIN DefaultConfig \ {"len", "pat"}

Configs == {[DefaultConfig EXCEPT !.len = d.len, !.pat = d.pat,
                                  !.advertise = a] :
              d \in Docs, a \in BOOLEAN}

----------------------------------------------------------------------------
\* Frame::pack.

\* A variant of isAscii that accepts every value of a byte.
isAscii_anyByte(c) == c >= 0 /\ c <= 255

\* A variant of isAscii that accepts the printable characters only.
isAscii_printable(c) == c >= 32 /\ c <= 126

isAscii(c) == c >= 0 /\ c <= 127

\* std::vector<uint8_t>::resize: the first elements are kept, new ones are 0.
Resize(v, n) == [k \in 1..n |-> IF k <= Len(v) THEN v[k] ELSE 0]

\* memcpy(beaconFrame.data(), header, sizeof(header))
CopyHeader(v) ==
  [k \in 1..Len(v) |-> IF k <= Len(header) THEN header[k] ELSE v[k]]

\* headerLength = ((uint8_t)(essidLength / 255) * 2), stored in a uint8_t
HeaderLengthOf(len) == ((((len \div 255) % 256) * 2) % 256)

BufferSize(len) == pwngridHeaderLength + len + HeaderLengthOf(len) + chunkSize

\* A variant of lines 180-182 that sets payloadSize back to 255 at the boundary
\* of a full chunk.
BoundarySize_reset(ps, len, k) == IF len - k < chunkSize THEN len - k ELSE 255

\* The value of payloadSize at a chunk boundary at document index k.
BoundarySize(ps, len, k) == IF len - k < chunkSize THEN len - k ELSE ps

\* The byte written for the document byte c (lines 186-191).
NextByte(c) == IF isAscii(c) THEN c ELSE QuestionMark

\* The iterations k0 .. k0 + n - 1 of the for loop of pack, where k0 is a
\* multiple of 255 and no other index of the range is: the first iteration
\* writes the marker and the length byte, and each iteration writes one data
\* byte at the cursor and moves the cursor by one.
PackChunk(st, js, k0, n) ==
  LET ps == BoundarySize(st.payloadSize, Len(js), k0)
      cb == st.currentByte
      f0 == st.frame
      size == Len(f0)
  IN  [frame |-> [x \in 1..size |->
                   IF x = cb + 1 THEN IDWhisperPayload
                   ELSE IF x = cb + 2 THEN ps % 256
                   ELSE IF x > cb + 2 /\ x <= cb + 2 + n
                        THEN NextByte(js[k0 + (x - cb - 2)])
                   ELSE f0[x]],
       payloadSize |-> ps,
       currentByte |-> cb + 2 + n,
       essidLength |-> st.essidLength,
       headerLength |-> st.headerLength,
       chunkStarts |-> Append(st.chunkStarts, cb),
       oob |-> st.oob \/ cb + 2 + n > size]

\* A variant of the loop that writes a marker and a length byte before it
\* tests whether a document byte is left.
RECURSIVE PackLoop_emptyChunk(_, _, _)
PackLoop_emptyChunk(st, js, k0) ==
  IF k0 < Len(js) \/ (k0 = 0 /\ st.chunkStarts = << >>)
  THEN LET n == IF Len(js) - k0 < 255 THEN Len(js) - k0 ELSE 255
       IN  CHOOSE r \in {IF n = 0 THEN nx
                         ELSE PackLoop_emptyChunk(nx, js, k0 + n) :
                           nx \in {PackChunk(st, js, k0, n)}} : TRUE
  ELSE st

\* A variant of the loop that writes a marker and a length byte after every
\* 255th data byte, the last one of the document included.
RECURSIVE PackLoop_trailingMarker(_, _, _)
PackLoop_trailingMarker(st, js, k0) ==
  IF k0 < Len(js)
  THEN LET n == IF Len(js) - k0 < 255 THEN Len(js) - k0 ELSE 255
       IN  CHOOSE r \in {PackLoop_trailingMarker(nx, js, k0 + n) :
                           nx \in {PackChunk(st, js, k0, n)}} : TRUE
  ELSE IF k0 > 0 /\ k0 % 255 = 0 THEN PackChunk(st, js, k0, 0)
  ELSE st

\* The for loop of pack from document index k0 (a multiple of 255) on.  The
\* state the chunk leaves is bound by a quantifier, which evaluates it once.
RECURSIVE PackLoop(_, _, _)
PackLoop(st, js, k0) ==
  IF k0 < Len(js)
  THEN LET n == IF Len(js) - k0 < 255 THEN Len(js) - k0 ELSE 255
       IN  CHOOSE r \in {PackLoop(nx, js, k0 + n) :
                           nx \in {PackChunk(st, js, k0, n)}} : TRUE
  ELSE st

\* Lines 124-158: the document pack builds from the Config c, by key.
JsonDoc(c) ==
  [epoch |-> c.epoch,
   face |-> c.face,
   identity |-> c.identity,
   name |-> c.name,
   policy |->
     [advertise |-> c.advertise,
      ap_ttl |-> c.ap_ttl,
      associate |-> c.associate,
      bored_num_epochs |-> c.bored_num_epochs,
      channels |-> [k \in 1..Len(c.channels) |-> c.channels[k]],
      deauth |-> c.deauth,
      excited_num_epochs |-> c.excited_num_epochs,
      hop_recon_time |-> c.hop_recon_time,
      max_inactive_scale |-> c.max_inactive_scale,
      max_interactions |-> c.max_interactions,
      max_misses_for_recon |-> c.max_misses_for_recon,
      min_recon_time |-> c.min_rssi,
      min_rssi |-> c.min_rssi,
      recon_inactive_multiplier |-> c.recon_inactive_multiplier,
      recon_time |-> c.recon_time,
      sad_num_epochs |-> c.sad_num_epochs,
      sta_ttl |-> c.sta_ttl],
   pwnd_run |-> c.pwnd_run,
   pwnd_tot |-> c.pwnd_tot,
   session_id |-> c.session_id,
   uptime |-> c.uptime,
   version |-> c.version]

\* Frame::pack on the buffer v and the payloadSize ps, for the Config c:
\* lines 161-165 and 175, then the loop.
PackOf(v, ps, c) ==
  PackLoop([frame |-> CopyHeader(Resize(v, BufferSize(measureJson(c)))),
            payloadSize |-> ps,
            essidLength |-> measureJson(c),
            headerLength |-> HeaderLengthOf(measureJson(c)),
            currentByte |-> pwngridHeaderLength,
            chunkStarts |-> << >>,
            oob |-> FALSE], serializeJson(c), 0)

\* Frame::pack with the Config c as the configuration it reads.
PackWith(c) ==
  \E r \in {PackOf(beaconFrame, payloadSize, c)} :
      /\ beaconFrame' = r.frame
      /\ payloadSize' = r.payloadSize
      /\ essidLength' = r.essidLength
      /\ headerLength' = r.headerLength
      /\ jsonCfg' = c
      /\ doc' = JsonDoc(c)
      /\ currentByte' = r.currentByte
      /\ chunkStarts' = r.chunkStarts
      /\ oob' = r.oob

pack == PackWith(cfg)

----------------------------------------------------------------------------
\* The collaborators: a call is recorded with its name and its argument.

Call(name, arg) == [call |-> name, arg |-> arg, msg |-> ""]
\* A line on the serial log or a status string on the display.
Say(name, msg) == [call |-> name, arg |-> 0, msg |-> msg]

\* The host clock: a delay or a transmit lets it stand or moves it by one.
Ticks == {t \in now..(now + 1) : t <= MaxClock}

----------------------------------------------------------------------------
\* The API called from outside: Frame::pack and Frame::send, each after the
\* configuration has taken some value.

PackCall ==
  /\ pc = "idle"
  /\ nCalls < MaxCalls
  /\ \E c \in Configs :
       /\ c.advertise = cfg.advertise
       /\ cfg' = c
       /\ PackWith(c)
  /\ nCalls' = nCalls + 1
  /\ io' = << Call("Frame::pack", 0) >>
  /\ UNCHANGED <<pc, caller, sendOk, now, txLen, sendTrace>>
  /\ UNCHANGED advVars

SendCall ==
  /\ pc = "idle"
  /\ nCalls < MaxCalls
  /\ cfg' \in {c \in Configs : c.advertise = cfg.advertise}
  /\ nCalls' = nCalls + 1
  /\ pc' = "send_pack"
  /\ caller' = "api"
  /\ sendTrace' = << >>
  /\ io' = << >>
  /\ UNCHANGED <<sendOk, now, txLen>>
  /\ UNCHANGED frameVars
  /\ UNCHANGED advVars

----------------------------------------------------------------------------
\* Frame::send.

\* A variant of line 210 that goes on to the transmit without the delay.
SendPack_noDelay ==
  /\ pc = "send_pack"
  /\ pack
  /\ pc' = "send_tx"
  /\ sendTrace' = Append(sendTrace, Call("Frame::pack", 0))
  /\ io' = << Call("Frame::pack", 0) >>
  /\ UNCHANGED <<cfg, caller, sendOk, now, txLen, nCalls>>
  /\ UNCHANGED advVars

\* line 210: Frame::pack()
SendPack ==
  /\ pc = "send_pack"
  /\ pack
  /\ pc' = "send_delay"
  /\ sendTrace' = Append(sendTrace, Call("Frame::pack", 0))
  /\ io' = << Call("Frame::pack", 0) >>
  /\ UNCHANGED <<cfg, caller, sendOk, now, txLen, nCalls>>
  /\ UNCHANGED advVars

\* line 215: delay(102)
SendDelay ==
  /\ pc = "send_delay"
  /\ now' \in Ticks
  /\ pc' = "send_tx"
  /\ sendTrace' = Append(sendTrace, Call("delay", SendDelayMs))
  /\ io' = << Call("delay", SendDelayMs) >>
  /\ UNCHANGED <<cfg, caller, sendOk, txLen, nCalls>>
  /\ UNCHANGED frameVars
  /\ UNCHANGED advVars

\* The length Frame::send hands to esp_wifi_80211_tx.
TxLength == Len(beaconFrame)

\* lines 216-219: esp_wifi_80211_tx, whose outcome is the radio's, and the
\* return of err == ESP_OK.
SendTx ==
  /\ pc = "send_tx"
  /\ sendOk' \in BOOLEAN
  /\ now' \in Ticks
  /\ txLen' = TxLength
  /\ sendTrace' = Append(sendTrace, Call("esp_wifi_80211_tx", TxLength))
  /\ io' = << Call("esp_wifi_80211_tx", TxLength) >>
  /\ IF caller = "advertise"
     THEN /\ pc' = "adv_after_send"
          /\ txThis' = txThis + 1
          /\ okThis' = IF sendOk' THEN okThis + 1 ELSE okThis
     ELSE /\ pc' = "idle"
          /\ txThis' = txThis
          /\ okThis' = okThis
  /\ UNCHANGED <<cfg, caller, nCalls>>
  /\ UNCHANGED frameVars
  /\ UNCHANGED <<i, packets, startTime, pps, advStatus>>

----------------------------------------------------------------------------
\* Frame::advertise.

NoRate == [kind |-> "none", num |-> 0, den |-> 1]

\* float pps = packets / (float)(millis() - startTime) * 1000: a quotient, or
\* the infinity or the NaN that a division by 0.0 gives.
Pps(p, elapsed) ==
  IF elapsed # 0 THEN [kind |-> "finite", num |-> p * 1000, den |-> elapsed]
  ELSE IF p # 0 THEN [kind |-> "inf", num |-> p, den |-> 0]
  ELSE [kind |-> "nan", num |-> 0, den |-> 0]

\* A variant of isinf that never answers true.
isinf_never(x) == FALSE

isinf(x) == x.kind = "inf"

\* A variant of the test of line 226 that ignores the flag.
AdvertiseEnabled_always == TRUE

\* line 226: if (Config::advertise)
AdvertiseEnabled == cfg.advertise

\* The configuration's advertise flag changes between two calls.
ToggleAdvertise ==
  /\ pc = "idle"
  /\ cfg' = [cfg EXCEPT !.advertise = ~cfg.advertise]
  /\ io' = << >>
  /\ UNCHANGED <<pc, caller, sendOk, now, txLen, sendTrace, nCalls>>
  /\ UNCHANGED frameVars
  /\ UNCHANGED advVars

\* lines 223-226 and 255-257: the flag is false.
AdvertiseSkip ==
  /\ pc = "idle"
  /\ ~AdvertiseEnabled
  /\ packets' = 0
  /\ startTime' = now
  /\ io' = << Call("millis", now) >>
  /\ advStatus' = "skipped"
  /\ UNCHANGED <<cfg, pc, caller, sendOk, now, txLen, sendTrace,
                 nCalls, i, pps, txThis, okThis>>
  /\ UNCHANGED frameVars

\* lines 223-231: the flag is true; up to the first test of the loop.
AdvertiseStart ==
  /\ pc = "idle"
  /\ AdvertiseEnabled
  /\ packets' = 0
  /\ startTime' = now
  /\ now' \in Ticks
  /\ i' = 0
  /\ pps' = NoRate
  /\ txThis' = 0
  /\ okThis' = 0
  /\ advStatus' = "running"
  /\ io' = << Call("millis", now), Say("Serial.println", "starting"),
              Say("Display::updateDisplay", "starting"),
              Call("delay", StartDelayMs) >>
  /\ pc' = "adv_loop"
  /\ UNCHANGED <<cfg, caller, sendOk, txLen, sendTrace, nCalls>>
  /\ UNCHANGED frameVars

\* line 231, i < 150, and line 232: the call of Frame::send.
AdvIterate ==
  /\ pc = "adv_loop"
  /\ i < AdvertiseIterations
  /\ pc' = "send_pack"
  /\ caller' = "advertise"
  /\ sendTrace' = << >>
  /\ pps' = NoRate
  /\ io' = << >>
  /\ UNCHANGED <<cfg, sendOk, now, txLen, nCalls>>
  /\ UNCHANGED <<i, packets, startTime, txThis, okThis, advStatus>>
  /\ UNCHANGED frameVars

\* A variant of lines 232-249 that counts a failed send as well.
AdvAfterSend_countAll ==
  /\ pc = "adv_after_send"
  /\ IF sendOk
     THEN /\ packets' = packets + 1
          /\ pps' = Pps(packets + 1, now - startTime)
          /\ io' = IF ~isinf(pps')
                   THEN << Call("millis", now),
                           Say("Serial.print", "rate"),
                           Say("Display::updateDisplay", "rate") >>
                   ELSE << Call("millis", now) >>
     ELSE /\ packets' = packets + 1
          /\ pps' = NoRate
          /\ io' = << Say("Serial.println", "failed") >>
  /\ i' = i + 1
  /\ sendOk' = FALSE
  /\ pc' = "adv_loop"
  /\ UNCHANGED <<cfg, caller, now, txLen, sendTrace, nCalls>>
  /\ UNCHANGED <<startTime, txThis, okThis, advStatus>>
  /\ UNCHANGED frameVars

\* A variant of lines 232-249 that leaves the loop when a send has failed.
AdvAfterSend_abort ==
  /\ pc = "adv_after_send"
  /\ IF sendOk
     THEN /\ packets' = packets + 1
          /\ pps' = Pps(packets + 1, now - startTime)
          /\ io' = IF ~isinf(pps')
                   THEN << Call("millis", now),
                           Say("Serial.print", "rate"),
                           Say("Display::updateDisplay", "rate") >>
                   ELSE << Call("millis", now) >>
          /\ i' = i + 1
     ELSE /\ packets' = packets
          /\ pps' = NoRate
          /\ io' = << Say("Serial.println", "failed") >>
          /\ i' = AdvertiseIterations
  /\ sendOk' = FALSE
  /\ pc' = "adv_loop"
  /\ UNCHANGED <<cfg, caller, now, txLen, sendTrace, nCalls>>
  /\ UNCHANGED <<startTime, txThis, okThis, advStatus>>
  /\ UNCHANGED frameVars

\* lines 232-249: the branch on the value Frame::send returned, and ++i.
AdvAfterSend ==
  /\ pc = "adv_after_send"
  /\ IF sendOk
     THEN /\ packets' = packets + 1
          /\ pps' = Pps(packets + 1, now - startTime)
          /\ io' = IF ~isinf(pps')
                   THEN << Call("millis", now),
                           Say("Serial.print", "rate"),
                           Say("Display::updateDisplay", "rate") >>
                   ELSE << Call("millis", now) >>
     ELSE /\ packets' = packets
          /\ pps' = NoRate
          /\ io' = << Say("Serial.println", "failed") >>
  /\ i' = i + 1
  /\ sendOk' = FALSE
  /\ pc' = "adv_loop"
  /\ UNCHANGED <<cfg, caller, now, txLen, sendTrace, nCalls>>
  /\ UNCHANGED <<startTime, txThis, okThis, advStatus>>
  /\ UNCHANGED frameVars

\* line 231, i < 150 is false, and lines 251-254.
AdvFinish ==
  /\ pc = "adv_loop"
  /\ ~(i < AdvertiseIterations)
  /\ pc' = "idle"
  /\ advStatus' = "finished"
  /\ pps' = NoRate
  /\ io' = << Say("Serial.println", "finished"),
              Say("Display::updateDisplay", "finished") >>
  /\ UNCHANGED <<cfg, caller, sendOk, now, txLen, sendTrace, nCalls>>
  /\ UNCHANGED <<i, packets, startTime, txThis, okThis>>
  /\ UNCHANGED frameVars

----------------------------------------------------------------------------
\* The state after construction (lines 39-45), for a configuration c.

Constructed(c) ==
  /\ cfg = c
  /\ doc = << >>
  /\ beaconFrame = << >>
  /\ payloadSize = 255
  /\ essidLength = 0
  /\ headerLength = 0
  /\ pc = "idle"
  /\ caller = "api"
  /\ i = 0
  /\ packets = 0
  /\ startTime = 0
  /\ sendOk = FALSE
  /\ pps = NoRate
  /\ now = 0
  /\ jsonCfg = c
  /\ currentByte = 0
  /\ chunkStarts = << >>
  /\ oob = FALSE
  /\ txLen = 0
  /\ txThis = 0
  /\ okThis = 0
  /\ sendTrace = << >>
  /\ advStatus = "none"
  /\ io = << >>
  /\ nCalls = 0

\* Calls of Frame::pack and Frame::send, in any order, each with any document.
Init == \E c \in Configs : c.advertise /\ Constructed(c)

Next == PackCall \/ SendCall \/ SendPack \/ SendDelay \/ SendTx

Spec == Init /\ [][Next]_vars

\* Calls of Frame::advertise, with the advertise flag changing between them;
\* the document is one of the short ones and stays the same.
AdvLengths == {1}

AdvInit ==
  \E c \in Configs : c.len \in AdvLengths /\ c.pat = 1 /\ Constructed(c)

AdvNext ==
  \/ ToggleAdvertise \/ AdvertiseSkip \/ AdvertiseStart \/ AdvIterate
  \/ SendPack \/ SendDelay \/ SendTx \/ AdvAfterSend \/ AdvFinish

AdvSpec == AdvInit /\ [][AdvNext]_vars

----------------------------------------------------------------------------
\* Frame::pack followed on its lengths and indices only, for long documents:
\* the same statements as PackOf and PackChunk without the bytes they store.

\* Documents have up to MaxBigFull full chunks: floor(L / 255) reaches the
\* values at which twice the quotient no longer fits the uint8_t headerLength.
MaxBigFull == 128
SizeFulls == {0, 1, 2, 3, MaxBigFull - 1, MaxBigFull}
SizeRests == {0, 1, 2, 3, 4, chunkSize - 2, chunkSize - 1}
SizeLengths == {k * chunkSize + d : k \in SizeFulls, d \in SizeRests}

\* The iterations k0 .. k0 + n - 1 of the for loop, as in PackChunk: the
\* cursor moves over the marker, the length byte and n data bytes, and the
\* last index written is the cursor minus one.
SizeChunk(st, len, k0, n) ==
  [size |-> st.size,
   payloadSize |-> BoundarySize(st.payloadSize, len, k0),
   currentByte |-> st.currentByte + 2 + n,
   chunkStarts |-> Append(st.chunkStarts, st.currentByte),
   oob |-> st.oob \/ st.currentByte + 2 + n > st.size]

\* The number of iterations of the for loop that write a marker: the indices
\* i below len with i == 0 || i % 255 == 0.
Boundaries(len) == Cardinality({k \in 0..(len - 1) : k = 0 \/ k % 255 = 0})

\* The chunks numbered a .. b - 1 (from 0) of the for loop, one after the
\* other; the range is halved to keep the evaluation shallow.
RECURSIVE SizeLoop(_, _, _, _)
SizeLoop(st, len, a, b) ==
  IF b <= a THEN st
  ELSE IF b = a + 1
  THEN SizeChunk(st, len, 255 * a,
                 IF len - 255 * a < 255 THEN len - 255 * a ELSE 255)
  ELSE CHOOSE r \in {SizeLoop(m, len, (a + b) \div 2, b) :
                       m \in {SizeLoop(st, len, a, (a + b) \div 2)}} : TRUE

\* Lines 162-164 and 175, then the loop, for a document of len bytes.
SizesOf(ps, len) ==
  SizeLoop([size |-> BufferSize(len),
            payloadSize |-> ps,
            currentByte |-> pwngridHeaderLength,
            chunkStarts |-> << >>,
            oob |-> FALSE], len, 0, Boundaries(len))

\* A call of Frame::pack with a document of one of the lengths of SizeLengths.
\* The bytes of the buffer are not followed: its size is BufferSize(essidLength).
PackSizes ==
  /\ pc = "idle"
  /\ nCalls < MaxCalls
  /\ \E len \in SizeLengths :
       \E r \in {SizesOf(payloadSize, len)} :
         /\ cfg' = [cfg EXCEPT !.len = len]
         /\ jsonCfg' = [cfg EXCEPT !.len = len]
         /\ doc' = JsonDoc(cfg)
         /\ essidLength' = len
         /\ headerLength' = HeaderLengthOf(len)
         /\ payloadSize' = r.payloadSize
         /\ currentByte' = r.currentByte
         /\ chunkStarts' = r.chunkStarts
         /\ oob' = r.oob
  /\ nCalls' = nCalls + 1
  /\ io' = << Call("Frame::pack", 0) >>
  /\ UNCHANGED <<beaconFrame, pc, caller, sendOk, now, txLen, sendTrace>>
  /\ UNCHANGED advVars

SizeInit == \E c \in Configs : c.len = 0 /\ c.advertise /\ Constructed(c)

SizeNext == PackSizes

SizeSpec == SizeInit /\ [][SizeNext]_vars

----------------------------------------------------------------------------
\* Frame::pack as the builder of the document, with the fields of Config
\* changing between the calls.

\* At most MaxEdits fields of Config differ from DefaultConfig at a time.
MaxEdits == 1

Edited(c) == {f \in ConfigFields : c[f] # DefaultConfig[f]}

\* The collaborator that owns Config gives one of its fields its other value.
ConfigWrite ==
  /\ pc = "idle"
  /\ \E f \in ConfigFields :
       \E c \in {[cfg EXCEPT ![f] = IF cfg[f] = DefaultConfig[f]
                                    THEN OtherConfig[f]
                                    ELSE DefaultConfig[f]]} :
         /\ Cardinality(Edited(c)) <= MaxEdits
         /\ cfg' = c
  /\ io' = << >>
  /\ UNCHANGED <<pc, caller, sendOk, now, txLen, sendTrace, nCalls>>
  /\ UNCHANGED frameVars
  /\ UNCHANGED advVars

\* A call of Frame::pack with Config as it is.
PackConfig ==
  /\ pc = "idle"
  /\ nCalls < MaxCalls
  /\ pack
  /\ nCalls' = nCalls + 1
  /\ io' = << Call("Frame::pack", 0) >>
  /\ UNCHANGED <<cfg, pc, caller, sendOk, now, txLen, sendTrace>>
  /\ UNCHANGED advVars

DocInit == Constructed(DefaultConfig)

DocNext == ConfigWrite \/ PackConfig

DocSpec == DocInit /\ [][DocNext]_vars

----------------------------------------------------------------------------
\* Vocabulary of the properties.

\* The byte at C index idx of beaconFrame.
At(idx) == beaconFrame[idx + 1]

\* Frame::pack has run at least once.
Packed == currentByte > 0

\* The document of the last pack.
LastDoc == serializeJson(jsonCfg)

\* ceil(len / 255)
CeilChunks(len) == (len + 254) \div 255

\* The number of data bytes between the marker numbered j (from 1) of the last
\* pack and the next marker, or the end of the written region.
DataBytesOf(j) ==
  (IF j < Len(chunkStarts) THEN chunkStarts[j + 1] ELSE currentByte)
    - chunkStarts[j] - 2

\* The length byte of the chunk numbered j (from 1) of the last pack.
LengthByteOf(j) == At(chunkStarts[j] + 1)

RECURSIVE SumLengthBytes(_)
SumLengthBytes(j) == IF j = 0 THEN 0 ELSE LengthByteOf(j) + SumLengthBytes(j - 1)

\* The last step called the collaborator or the function named name.
Did(name) == \E k \in 1..Len(io) : io[k].call = name
DidNext(name) == \E k \in 1..Len(io') : io'[k].call = name

\* The last step emitted a rate line, on the serial log or on the display.
RateLine == \E k \in 1..Len(io) : io[k].msg = "rate"

\* The last step was the transmit of a Frame::send.
JustSent == Did("esp_wifi_80211_tx")

----------------------------------------------------------------------------
\* C1: after every pack, each chunk's length byte is the number of data bytes
\* that follow it: 255 for every chunk but the last, and for the last chunk
\* L mod 255, or 255 when L is a nonzero multiple of 255.
C1_LengthByteIsChunkLength ==
  Packed =>
    \A j \in 1..Len(chunkStarts) :
      /\ LengthByteOf(j) = DataBytesOf(j)
      /\ LengthByteOf(j) =
           IF j < Len(chunkStarts) \/ essidLength % 255 = 0 THEN 255
           ELSE essidLength % 255

\* C2: after every pack the chunk region holds ceil(L / 255) chunks, at least
\* one when L = 0, and the length bytes add up to L.
C2_ChunkCountAndSum ==
  Packed =>
    /\ Len(chunkStarts) = IF essidLength = 0 THEN 1 ELSE CeilChunks(essidLength)
    /\ SumLengthBytes(Len(chunkStarts)) = essidLength

C4_TxLengthIsCursor ==
  JustSent =>
    /\ txLen = currentByte
    /\ txLen = 36 + essidLength + 2 * Len(chunkStarts)

\* C5: the data bytes of the frame, taken 255 per chunk after each marker and
\* length byte, are the document with each byte >= 128 replaced by '?'.
C5_RoundTrip ==
  Packed =>
    /\ currentByte = 36 + essidLength + 2 * CeilChunks(essidLength)
    /\ \A k \in 0..(essidLength - 1) :
         At(36 + k + 2 * ((k \div 255) + 1)) =
           IF LastDoc[k + 1] >= 128 THEN 63 ELSE LastDoc[k + 1]

\* C5, witness: a document of two chunks with non-ASCII and control bytes,
\* packed after another pack.
C5_Witness ==
  Packed /\ essidLength > 255 /\ jsonCfg.pat = 1 /\ nCalls = 2 /\ pc = "idle"

\* C6: after every pack bytes 0..35 of beaconFrame are the header template,
\* and no marker, length or data byte is written below index 36.
C6_HeaderIntact ==
  Packed =>
    /\ Len(beaconFrame) >= 36
    /\ SubSeq(beaconFrame, 1, 36) = header
    /\ \A j \in 1..Len(chunkStarts) : chunkStarts[j] >= 36

\* C6, witness: a second pack, of a document of more than one chunk.
C6_Witness ==
  Packed /\ nCalls = 2 /\ pc = "idle" /\ Len(chunkStarts) > 1

\* C7: with the advertise flag false, a call of advertise packs nothing,
\* transmits nothing, shows nothing on the display and leaves beaconFrame and
\* payloadSize as they were.
C7_DisabledIsNoOp ==
  [][(pc = "idle" /\ ~cfg.advertise /\ DidNext("millis")) =>
       /\ ~DidNext("Frame::pack")
       /\ ~DidNext("esp_wifi_80211_tx")
       /\ ~DidNext("Display::updateDisplay")
       /\ ~DidNext("delay")
       /\ beaconFrame' = beaconFrame
       /\ payloadSize' = payloadSize
       /\ txLen' = txLen
       /\ pc' = "idle"]_vars

\* C7, witness: a call with the flag false, after a run that filled the frame.
C7_Witness ==
  advStatus = "skipped" /\ ~cfg.advertise /\ Packed /\ Did("millis")

\* How far the current iteration of advertise has come.
C8_Position ==
  IF pc = "adv_loop" THEN 0
  ELSE IF pc = "send_pack" THEN 1
  ELSE IF pc = "send_delay" THEN 2
  ELSE IF pc = "send_tx" THEN 3
  ELSE 4

C8_Measure == 5 * i + C8_Position

\* The transmit attempts of an invocation follow its loop counter.
C8_Counts ==
  /\ advStatus = "finished" => (txThis = 150 /\ i = 150 /\ pc = "idle")
  /\ advStatus = "running" =>
       /\ pc \in {"adv_loop", "send_pack", "send_delay", "send_tx",
                  "adv_after_send"}
       /\ txThis = IF pc = "adv_after_send" THEN i + 1 ELSE i
       /\ i <= 150
       /\ (i = 150 => pc = "adv_loop")
       /\ packets <= i

\* A failed send is reported and the loop goes on; every step of a running
\* invocation moves it forward; it ends only by reporting completion.
C8_Step ==
  /\ (pc = "adv_after_send" /\ ~sendOk) =>
       /\ pc' = "adv_loop"
       /\ i' = i + 1
       /\ packets' = packets
       /\ advStatus' = "running"
       /\ io' = << Say("Serial.println", "failed") >>
  /\ (advStatus = "running" /\ advStatus' = "running") =>
       (C8_Measure' > C8_Measure /\ C8_Measure' <= 5 * 150)
  /\ (advStatus = "running" /\ advStatus' # "running") =>
       /\ advStatus' = "finished"
       /\ i = 150
       /\ io' = << Say("Serial.println", "finished"),
                   Say("Display::updateDisplay", "finished") >>

\* C8: with the flag true one invocation makes exactly 150 transmit attempts
\* whatever their outcomes: a failed send is reported and the loop goes on
\* with the next iteration, without abort and without retry, every step moves
\* the invocation forward, and it ends by reporting completion.
C8_Exactly150Attempts == []C8_Counts /\ [][C8_Step]_vars

\* C8, witness: an invocation that has finished with both successful and
\* failed sends.
C8_Witness ==
  advStatus = "finished" /\ packets > 0 /\ packets < 150 /\ txThis = 150

\* C9: no non-finite rate is reported: a rate line is emitted only with a
\* finite rate, and none is emitted in an iteration whose elapsed time is 0.
C9_NoNonFiniteRate ==
  /\ RateLine =>
       /\ pps.kind = "finite"
       /\ pps.den # 0
       /\ now - startTime # 0
  /\ (pc = "adv_loop" /\ i > 0 /\ now - startTime = 0) => ~RateLine

\* C9, witness: a successful send counted at elapsed time 0.
C9_Witness ==
  pc = "adv_loop" /\ i > 0 /\ now - startTime = 0 /\ pps.kind = "inf"

\* C10: every transmit comes, in its Frame::send, after exactly one pack and
\* then the delay of 102 ms, in that order, and nothing changes beaconFrame
\* between the pack and the transmit.
C10_TxAfterPackAndDelay ==
  /\ [](JustSent =>
          /\ Len(sendTrace) = 3
          /\ sendTrace[1] = Call("Frame::pack", 0)
          /\ sendTrace[2] = Call("delay", 102)
          /\ sendTrace[3] = Call("esp_wifi_80211_tx", Len(beaconFrame)))
  /\ [][(DidNext("esp_wifi_80211_tx") \/ DidNext("delay")) =>
          (beaconFrame' = beaconFrame /\ ~DidNext("Frame::pack"))]_vars
  /\ [][DidNext("esp_wifi_80211_tx") =>
          (Did("delay") /\ pc = "send_tx")]_vars
  /\ [][(DidNext("delay") /\ pc # "idle") =>
          (Did("Frame::pack") /\ pc = "send_delay")]_vars

\* C10, witness: the transmit of a second Frame::send.
C10_Witness ==
  JustSent /\ nCalls = 2 /\ Len(sendTrace) = 3 /\ txLen > 36

\* The header and chunk region a first-ever pack writes for the Config c.
FirstPack(c) ==
  LET r == PackOf(<< >>, 255, c) IN SubSeq(r.frame, 1, r.currentByte)

\* C11: the header and chunk regions pack writes depend on the configuration
\* it reads only: after any sequence of pack calls they are byte for byte
\* those a first-ever pack writes for the same configuration.
C11_FrameDependsOnConfigOnly ==
  Packed => SubSeq(beaconFrame, 1, currentByte) = FirstPack(jsonCfg)

\* C12: every index pack writes is below the size the buffer was given in
\* that call, 36 + L + headerLength + 255 with headerLength the 8-bit value of
\* floor(L / 255) * 2: the cursor, one past the last index written, never
\* exceeds it.
C12_WritesInsideBuffer ==
  Packed =>
    /\ ~oob
    /\ currentByte <= 36 + essidLength + headerLength + 255

\* The size-only pack and the pack on bytes agree on every length and index,
\* for the documents of Spec.
SizesAgreeWithPack ==
  [][DidNext("Frame::pack") =>
       \E r \in {SizesOf(payloadSize, essidLength')} :
         /\ r.size = Len(beaconFrame')
         /\ r.payloadSize = payloadSize'
         /\ r.currentByte = currentByte'
         /\ r.chunkStarts = chunkStarts'
         /\ r.oob = oob']_vars

\* C13: after any sequence of pack calls the buffer holds no byte of an
\* earlier call's document: every byte of beaconFrame at or beyond the write
\* cursor of the last pack is 0, in the buffer handed to the transmit too.
C13_NoStaleBytes ==
  Packed => \A x \in (currentByte + 1)..Len(beaconFrame) : beaconFrame[x] = 0

\* What a pack step does to payloadSize.
C14_PackStep ==
  DidNext("Frame::pack") =>
    /\ payloadSize' = IF essidLength' % 255 = 0 THEN payloadSize
                      ELSE essidLength' % 255
    /\ (payloadSize' = 255 => payloadSize = 255)
    /\ \A j \in 1..Len(chunkStarts') :
         beaconFrame'[chunkStarts'[j] + 2] =
           IF j < Len(chunkStarts') THEN payloadSize ELSE payloadSize'

\* C14: pack changes payloadSize only at a chunk boundary with fewer than 255
\* document bytes left, to that remainder, and never sets it back to 255: the
\* length byte of each earlier chunk is the value the call started with; a
\* pack of a document of length 0 or a multiple of 255 leaves payloadSize as
\* it was; and nothing else changes it, so the value one call sets is in
\* force at the start of the next.
C14_PayloadSizePersists ==
  /\ [][C14_PackStep]_vars
  /\ [][~DidNext("Frame::pack") => payloadSize' = payloadSize]_vars

\* C14, witness: a pack of a 255-byte document, after a pack that left the
\* remainder 1, has left payloadSize at 1.
C14_Witness ==
  /\ Packed /\ nCalls = 2 /\ pc = "idle" /\ Did("Frame::pack")
  /\ essidLength = 255 /\ payloadSize = 1

\* C15: for a document of L >= 1 bytes pack writes the marker 0xDE at the
\* offsets 36 + 257 * k, k in 0 .. ceil(L / 255) - 1, and at no other place,
\* each followed by a length byte and then the data bytes of the document
\* indices 255 * k .. min(255 * k + 254, L - 1) in order; the cursor ends at
\* 36 + L + 2 * ceil(L / 255), and when L is a multiple of 255 no marker
\* follows the last data byte.
C15_ChunkLayout ==
  (Packed /\ essidLength >= 1) =>
    /\ chunkStarts = [k \in 1..CeilChunks(essidLength) |-> 36 + 257 * (k - 1)]
    /\ \A j \in 1..Len(chunkStarts) : At(chunkStarts[j]) = 222
    /\ \A k \in 0..(essidLength - 1) :
         At(36 + 257 * (k \div 255) + 2 + (k % 255)) =
           IF LastDoc[k + 1] <= 127 THEN LastDoc[k + 1] ELSE 63
    /\ currentByte = 36 + essidLength + 2 * CeilChunks(essidLength)
    /\ essidLength % 255 = 0 =>
         /\ Len(chunkStarts) = essidLength \div 255
         /\ chunkStarts[Len(chunkStarts)] + 2 + 255 = currentByte

\* C15, witness: a document of exactly two full chunks, packed after another
\* pack.
C15_Witness ==
  /\ Packed /\ nCalls = 2 /\ pc = "idle" /\ essidLength = 510
  /\ chunkStarts = << 36, 293 >> /\ currentByte = 550

\* The offset of the data byte that pack writes for the document index k.
DataOffset(k) == 36 + 257 * (k \div 255) + 2 + (k % 255)

\* C16, as stated: pack writes '?' for a document byte below 0x20 or above
\* 0x7E and copies every other byte, so every data byte of the chunk region is
\* a printable ASCII character.
C16_PrintableOnly ==
  Packed =>
    \A k \in 0..(essidLength - 1) :
      /\ At(DataOffset(k)) =
           IF LastDoc[k + 1] < 32 \/ LastDoc[k + 1] > 126 THEN 63
           ELSE LastDoc[k + 1]
      /\ At(DataOffset(k)) >= 32 /\ At(DataOffset(k)) <= 126

\* C16, amended: pack writes '?' for a document byte of 0x80 or more and
\* copies every byte of 0x00 .. 0x7F, the control characters 0x00 .. 0x1F and
\* 0x7F included, so every data byte of the chunk region is at most 0x7F and
\* a control character of the document is in the frame as it is.
C16_SevenBitOnly ==
  Packed =>
    \A k \in 0..(essidLength - 1) :
      /\ At(DataOffset(k)) =
           IF LastDoc[k + 1] >= 128 THEN 63 ELSE LastDoc[k + 1]
      /\ At(DataOffset(k)) <= 127
      /\ (LastDoc[k + 1] < 32 \/ LastDoc[k + 1] = 127) =>
           At(DataOffset(k)) = LastDoc[k + 1]

\* C16, witness: a packed document with a control character, 0x7F and a byte
\* above 0x7F, of which the first two are in the frame and the last is '?'.
C16_Witness ==
  /\ Packed /\ pc = "idle" /\ essidLength > 255
  /\ \E k \in 0..(essidLength - 1) :
       LastDoc[k + 1] = 31 /\ At(DataOffset(k)) = 31
  /\ \E k \in 0..(essidLength - 1) :
       LastDoc[k + 1] = 127 /\ At(DataOffset(k)) = 127
  /\ \E k \in 0..(essidLength - 1) :
       LastDoc[k + 1] = 195 /\ At(DataOffset(k)) = 63

\* The step emits a rate line.
RateLineNext == \E k \in 1..Len(io') : io'[k].msg = "rate"

\* The success counter against the transmits that returned success.
C17_Counter ==
  /\ advStatus = "running" =>
       packets = IF pc = "adv_after_send" /\ sendOk THEN okThis - 1
                 ELSE okThis
  /\ advStatus = "finished" => (packets = okThis /\ okThis <= txThis)
  /\ RateLine => (pps = Pps(packets, now - startTime) /\ packets > 0)

\* The steps of an invocation that read the value Frame::send returned.
C17_Step ==
  /\ (pc = "adv_after_send" /\ sendOk) =>
       /\ packets' = packets + 1
       /\ \A k \in 1..Len(io') : io'[k].msg # "failed"
  /\ (pc = "adv_after_send" /\ ~sendOk) =>
       /\ packets' = packets
       /\ io' = << Say("Serial.println", "failed") >>
       /\ ~RateLineNext
  /\ (advStatus = "running" /\ pc # "adv_after_send") => packets' = packets
  /\ (advStatus = "running" /\ advStatus' = "running") =>
       startTime' = startTime
  /\ (advStatus # "running" /\ advStatus' = "running") =>
       (packets' = 0 /\ startTime' = now)
  /\ RateLineNext =>
       /\ pc = "adv_after_send" /\ sendOk
       /\ pps' = Pps(packets + 1, now' - startTime)

\* C17: during an invocation of advertise the success counter is the number
\* of transmits of this invocation that returned success: it goes up by one
\* on a successful send and stays on a failed one.  A rate line is emitted
\* only right after a successful send, computed from the counter and the
\* time since the start of the invocation; a failed send emits the failure
\* message and no rate line.
C17_CounterIsSuccesses == []C17_Counter /\ [][C17_Step]_vars

\* C17, witness: a rate line in an invocation in which a send has failed and
\* more than one has succeeded.
C17_Witness ==
  /\ advStatus = "running" /\ RateLine
  /\ packets = 2 /\ okThis = 2 /\ txThis = 4 /\ i = 4

TopKeys ==
  {"epoch", "face", "identity", "name", "pwnd_run", "pwnd_tot", "session_id",
   "uptime", "version"}

PolicyKeys ==
  {"advertise", "ap_ttl", "associate", "bored_num_epochs", "channels",
   "deauth", "excited_num_epochs", "hop_recon_time", "max_inactive_scale",
   "max_interactions", "max_misses_for_recon", "min_recon_time", "min_rssi",
   "recon_inactive_multiplier", "recon_time", "sad_num_epochs", "sta_ttl"}

\* C18: in the document pack builds, every top-level key and every policy key
\* carries the value the Config field of the same name had when pack read it.
C18_KeysCarryOwnField ==
  Packed =>
    /\ DOMAIN doc = TopKeys \cup {"policy"}
    /\ DOMAIN doc.policy = PolicyKeys
    /\ \A k \in TopKeys : doc[k] = jsonCfg[k]
    /\ \A k \in PolicyKeys : doc.policy[k] = jsonCfg[k]

====
